---- MODULE Spec2Model ----
(***************************************************************************)
(* A model of plural.set() (src/src/plural/__init__.py).                   *)
(*                                                                         *)
(* Python strings are modelled as sequences of one-character strings, so   *)
(* that str.split, str.upper, str(n) and string concatenation are computed *)
(* character by character.  A test value (the first element of a tuple of  *)
(* *args) is a record [t, v]: t is its Python type and v its value; a      *)
(* float's v counts halves (v = 2 is 1.0, v = 5 is 2.5).                   *)
(***************************************************************************)
EXTENDS Integers, Sequences, FiniteSets, TLC

VARIABLES args, kwargs, pc, sep, result, err, forms, writes

vars == <<args, kwargs, pc, sep, result, err, forms, writes>>

\* ------------------------------------------------------------------ bounds

\* The largest number of separator-delimited fields of a candidate string.
MaxFields == 4
\* The largest number of candidate strings of one tuple.
MaxCands == 2
\* The largest number of tuples of a call whose tuples are all drawn freely.
MaxArgs == 2
\* The number of tuples of a long call (indices reach two decimal digits).
LongArgs == 11
\* Integer test values range over -MaxQuantity .. MaxQuantity.
MaxQuantity == 2

\* --------------------------------------------------------- Python values

PyInt(n) == [t |-> "int", v |-> n]
PyBool(b) == [t |-> "bool", v |-> b]
PyFloat(halves) == [t |-> "float", v |-> halves]
PyStr == [t |-> "str", v |-> 0]

\* Python's ==  between a test value and an integer literal.
PyEq(q, n) ==
    CASE q.t \in {"int", "bool"} -> q.v = n
      [] q.t = "float" -> q.v = 2 * n
      [] OTHER -> FALSE

\* Whether a value can index a tuple (it has __index__): int and bool do,
\* float and str raise TypeError.
IsIndex(q) == q.t \in {"int", "bool"}

\* tuple[form], Python's indices counting from 0.
Index(tuple, form) == tuple[form.v + 1]

LowerLetters ==
    <<"a", "b", "c", "d", "e", "f", "g", "h", "i", "j", "k", "l", "m",
      "n", "o", "p", "q", "r", "s", "t", "u", "v", "w", "x", "y", "z">>

UpperLetters ==
    <<"A", "B", "C", "D", "E", "F", "G", "H", "I", "J", "K", "L", "M",
      "N", "O", "P", "Q", "R", "S", "T", "U", "V", "W", "X", "Y", "Z">>

\* The upper-case letter of each lower-case letter.
UpperMap ==
    [c \in {LowerLetters[k] : k \in 1..Len(LowerLetters)} |->
        UpperLetters[CHOOSE k \in 1..Len(LowerLetters) : LowerLetters[k] = c]]

UpperChar(c) == IF c \in DOMAIN UpperMap THEN UpperMap[c] ELSE c

\* str.upper()
upper(s) == [k \in 1..Len(s) |-> UpperChar(s[k])]

Digits == <<"0", "1", "2", "3", "4", "5", "6", "7", "8", "9">>

\* str(n) of a non-negative integer: its decimal digits.
RECURSIVE str(_)
str(n) ==
    IF n < 10 THEN <<Digits[n + 1]>>
    ELSE str(n \div 10) \o <<Digits[(n % 10) + 1]>>

\* str.find: the first position (from 1) where separator occurs in s, 0 if
\* none.
Find(s, separator) ==
    LET hits == {k \in 1..(Len(s) - Len(separator) + 1) :
                    SubSeq(s, k, k + Len(separator) - 1) = separator}
    IN IF hits = {} THEN 0
       ELSE CHOOSE k \in hits : \A h \in hits : k <= h

\* A mutant of split: maxsplit is ignored, every occurrence cuts.
RECURSIVE splitAll(_, _, _)
splitAll(s, separator, maxsplit) ==
    IF Find(s, separator) = 0 THEN <<s>>
    ELSE <<SubSeq(s, 1, Find(s, separator) - 1)>>
         \o splitAll(SubSeq(s, Find(s, separator) + Len(separator), Len(s)),
                     separator, maxsplit)

\* str.split(separator, maxsplit) for a non-empty separator: cut at the
\* leftmost occurrences, at most maxsplit times.
RECURSIVE split(_, _, _)
split(s, separator, maxsplit) ==
    LET k == Find(s, separator)
    IN IF maxsplit = 0 \/ k = 0 THEN <<s>>
       ELSE <<SubSeq(s, 1, k - 1)>>
            \o split(SubSeq(s, k + Len(separator), Len(s)), separator,
                     maxsplit - 1)

\* The maxsplit argument of p.split(sep, 2).
MaxSplit == 2

\* ------------------------------------------------------------ the catalog

\* regpl in insertion order (the order of "for r in regpl"): <<name, forms>>.
regpl ==
    << <<  <<"s">>,                      << <<"s">>, <<>>, <<"s">> >>  >>,
       <<  <<"e", "s">>,                 << <<"e", "s">>, <<>>, <<"e", "s">> >>  >>,
       <<  <<"y">>,                      << <<"i", "e", "s">>, <<"y">>, <<"i", "e", "s">> >>  >>,
       <<  <<"i", "e", "s">>,            << <<"i", "e", "s">>, <<"y">>, <<"i", "e", "s">> >>  >>,
       <<  <<"t", "h", "i", "s">>,       << <<"t", "h", "e", "s", "e">>, <<"t", "h", "i", "s">>, <<"t", "h", "e", "s", "e">> >>  >>,
       <<  <<"t", "h", "e", "s", "e">>,  << <<"t", "h", "e", "s", "e">>, <<"t", "h", "i", "s">>, <<"t", "h", "e", "s", "e">> >>  >>,
       <<  <<"t", "h", "a", "t">>,       << <<"t", "h", "o", "s", "e">>, <<"t", "h", "a", "t">>, <<"t", "h", "o", "s", "e">> >>  >>,
       <<  <<"t", "h", "o", "s", "e">>,  << <<"t", "h", "o", "s", "e">>, <<"t", "h", "a", "t">>, <<"t", "h", "o", "s", "e">> >>  >>,
       <<  <<"i", "s">>,                 << <<"a", "r", "e">>, <<"i", "s">>, <<"a", "r", "e">> >>  >>,
       <<  <<"a", "r", "e">>,            << <<"a", "r", "e">>, <<"i", "s">>, <<"a", "r", "e">> >>  >>
    >>

\* ------------------------------------------------------------------ set()

DefaultSep == <<"|">>

\* if 'sep' in kwargs: sep = kwargs['sep']  else: sep = '|'
Sep(kw) == IF "sep" \in DOMAIN kw THEN kw["sep"] ELSE DefaultSep

\* A mutant of Form: "if form != 1: form = 2".
FormNotOne(q) == IF ~PyEq(q, 1) THEN PyInt(2) ELSE q

\* form = v[0]; if form not in (0, 1): form = 2
Form(q) == IF ~(PyEq(q, 0) \/ PyEq(q, 1)) THEN PyInt(2) ELSE q

\* A mutant of ShortcutKey: 'P' + r + n.
ShortcutKeyNameFirst(n, r) == <<"P">> \o r \o n

\* The key of a shortcut: 'P' + n + r
ShortcutKey(n, r) == <<"P">> \o n \o r

\* The key of a candidate string: 'P' + n + sep + p
CustomKey(n, separator, p) == <<"P">> \o n \o separator \o p

\* A mutant of Normalize: two fields are not reordered (only s.append(s[1])).
NormalizeUnordered(s) ==
    IF Len(s) = 2 THEN Append(s, s[2])
    ELSE IF Len(s) = 1 THEN Append(Append(s, s[1]), s[1])
    ELSE s

\* A mutant of Normalize: "if len(s) >= 2".
NormalizeAtLeastTwo(s) ==
    IF Len(s) >= 2 THEN
        LET s1 == Append(s, s[2])
            s2 == [s1 EXCEPT ![2] = s1[1]]
        IN [s2 EXCEPT ![1] = s2[3]]
    ELSE IF Len(s) = 1 THEN Append(Append(s, s[1]), s[1])
    ELSE s

\* A mutant of Normalize: two fields without "s[0] = s[2]" (null is the
\* singular).
NormalizeNullSingular(s) ==
    IF Len(s) = 2 THEN
        LET s1 == Append(s, s[2])
        IN [s1 EXCEPT ![2] = s1[1]]
    ELSE IF Len(s) = 1 THEN Append(Append(s, s[1]), s[1])
    ELSE s

\* The lists of 2 and of 1 fields completed to null/singular/plural.
Normalize(s) ==
    IF Len(s) = 2 THEN
        LET s1 == Append(s, s[2])
            s2 == [s1 EXCEPT ![2] = s1[1]]
        IN [s2 EXCEPT ![1] = s2[3]]
    ELSE IF Len(s) = 1 THEN Append(Append(s, s[1]), s[1])
    ELSE s

\* result[key] = val, recorded in the history of the call's stores.
Store(st, idx, kind, name, key, val) ==
    [st EXCEPT !.result = (key :> val) @@ st.result,
               !.writes = Append(st.writes,
                                 [n |-> idx, kind |-> kind, name |-> name,
                                  key |-> key, val |-> val])]

\* for r in regpl: the shortcuts of tuple idx, from the k-th entry on.
RECURSIVE ShortcutLoop(_, _, _, _)
ShortcutLoop(st, idx, form, k) ==
    IF k > Len(regpl) THEN st
    ELSE IF ~IsIndex(form) THEN [st EXCEPT !.err = "TypeError"]
    ELSE LET r == regpl[k][1]
             val == Index(regpl[k][2], form)
             st1 == Store(st, idx, "shortcut", r,
                          ShortcutKey(str(idx), r), val)
             st2 == Store(st1, idx, "shortcut", upper(r),
                          ShortcutKey(str(idx), upper(r)), upper(val))
         IN ShortcutLoop(st2, idx, form, k + 1)

\* for p in v[1:]: the candidate strings of tuple idx, from v[k] on (v[1] is
\* the test value).
RECURSIVE CandidateLoop(_, _, _, _, _, _)
CandidateLoop(st, idx, form, v, separator, k) ==
    IF k > Len(v) THEN st
    ELSE IF separator = <<>> THEN [st EXCEPT !.err = "ValueError"]
    ELSE LET p == v[k]
             s == Normalize(split(p, separator, MaxSplit))
         IN CandidateLoop(Store(st, idx, "custom", p,
                                CustomKey(str(idx), separator, p),
                                Index(s, form)),
                          idx, form, v, separator, k + 1)

\* One iteration of "for n, v in enumerate(args)"; i counts from 1, n = i - 1.
Iteration(st, i, v, separator) ==
    IF Len(v) = 0 THEN [st EXCEPT !.err = "IndexError"]
    ELSE LET form == Form(v[1])
             st1 == [st EXCEPT !.forms = Append(st.forms, form)]
             st2 == ShortcutLoop(st1, i - 1, form, 1)
         IN IF st2.err # "none" THEN st2
            ELSE CandidateLoop(st2, i - 1, form, v, separator, 2)

RECURSIVE Loop(_, _, _, _)
Loop(st, a, separator, i) ==
    IF i > Len(a) \/ st.err # "none" THEN st
    ELSE Loop(Iteration(st, i, a[i], separator), a, separator, i + 1)

\* The whole call: the returned dictionary, or the exception raised (then no
\* dictionary is returned).
set(a, separator) ==
    LET st == Loop([result |-> <<>>, writes |-> <<>>, forms |-> <<>>,
                    err |-> "none"], a, separator, 1)
    IN IF st.err = "none" THEN st ELSE [st EXCEPT !.result = <<>>]

\* ---------------------------------------------------------------- inputs

Seps == {DefaultSep, <<"<", "x", ">">>, <<"a", "a">>, <<"0">>, <<"s">>, <<>>}

Fields == {<<>>, <<"a">>, <<"s">>}

\* The strings of exactly k fields joined by the separator.
RECURSIVE Joins(_, _)
Joins(separator, k) ==
    IF k = 1 THEN Fields
    ELSE {f \o separator \o j : f \in Fields, j \in Joins(separator, k - 1)}

Cands(separator, maxk) == UNION {Joins(separator, k) : k \in 1..maxk}

TinyCands(separator) == {<<"s">>, separator \o <<"s">>}

SeqsUpTo(S, n) == UNION {[1..k -> S] : k \in 0..n}

Quantities ==
    {PyInt(n) : n \in (-MaxQuantity)..MaxQuantity}
    \cup {PyBool(0), PyBool(1), PyFloat(0), PyFloat(2), PyFloat(5), PyStr}

SmallQuantities == {PyInt(0), PyInt(1), PyInt(2)}

TinyRequests(separator) ==
    {<<>>}
    \cup {<<q>> \o cs : q \in SmallQuantities,
                        cs \in SeqsUpTo(TinyCands(separator), 1)}

\* One tuple, any test value, at most one candidate string of up to
\* MaxFields fields.
RichCalls(separator) ==
    {<< <<q>> \o cs >> : q \in Quantities,
                         cs \in SeqsUpTo(Cands(separator, MaxFields), 1)}

\* One tuple with up to MaxCands candidate strings.
ManyCandCalls(separator) ==
    {<< <<q>> \o cs >> : q \in SmallQuantities,
                         cs \in SeqsUpTo(Fields \cup TinyCands(separator),
                                         MaxCands)}

\* Up to MaxArgs tuples.
ShortCalls(separator) == SeqsUpTo(TinyRequests(separator), MaxArgs)

\* LongArgs tuples, all (2,) but the second and one of the eleventh on.
LongCalls(separator) ==
    {[i \in 1..LongArgs |-> IF i = 2 THEN ra ELSE IF i = b THEN rb
                            ELSE <<PyInt(2)>>] :
        ra \in TinyRequests(separator) \ {<<>>},
        rb \in TinyRequests(separator) \ {<<>>},
        b \in 11..LongArgs}

Calls(separator) ==
    RichCalls(separator) \cup ManyCandCalls(separator)
    \cup ShortCalls(separator) \cup LongCalls(separator)

\* ----------------------------------------------------------- state machine

\* The keyword arguments of a call: none, or sep.
Kwargs == {<<>>} \cup {[k \in {"sep"} |-> x] : x \in Seps}

\* A call about to be made; the locals of set() hold nothing yet.
Init ==
    /\ kwargs \in Kwargs
    /\ args \in Calls(Sep(kwargs))
    /\ pc = "call"
    /\ sep = <<>>
    /\ result = <<>>
    /\ err = "none"
    /\ forms = <<>>
    /\ writes = <<>>

\* plural.set(*args, sep=sep)
SetCall ==
    /\ pc = "call"
    /\ sep' = Sep(kwargs)
    /\ \E st \in {set(args, Sep(kwargs))} :
          /\ result' = st.result
          /\ err' = st.err
          /\ forms' = st.forms
          /\ writes' = st.writes
    /\ pc' = "done"
    /\ UNCHANGED <<args, kwargs>>

Next == SetCall

Spec == Init /\ [][Next]_vars

\* ---------------------------------------------------------------- claims

\* The category the documentation gives a test value: 0 (null) when it
\* equals 0, 1 (singular) when it equals 1, 2 (plural) otherwise.
Category(q) == IF PyEq(q, 0) THEN 0 ELSE IF PyEq(q, 1) THEN 1 ELSE 2

\* The text of a key of the tuple of index n: 'P', the decimal index, a tail.
KeyText(n, tail) == <<"P">> \o str(n) \o tail

\* The positions where separator occurs in s, overlapping ones included.
Occ(s, separator) ==
    {k \in 1..(Len(s) - Len(separator) + 1) :
        SubSeq(s, k, k + Len(separator) - 1) = separator}

\* The number of occurrences counted from the left without overlap, as
\* str.count does.
RECURSIVE Count(_, _)
Count(s, separator) ==
    IF Occ(s, separator) = {} THEN 0
    ELSE 1 + Count(SubSeq(s, Find(s, separator) + Len(separator), Len(s)),
                   separator)

\* What follows the leftmost occurrence of separator in s.
After(s, separator) == SubSeq(s, Find(s, separator) + Len(separator), Len(s))

\* A separator no proper prefix of which is also its suffix: two occurrences
\* of it never overlap.
Unbordered(separator) ==
    \A k \in 1..(Len(separator) - 1) :
        SubSeq(separator, 1, k)
            # SubSeq(separator, Len(separator) - k + 1, Len(separator))

CustomWrites == {k \in 1..Len(writes) : writes[k].kind = "custom"}

\* The test value of the tuple a store was made for.
TestOf(w) == args[w.n + 1][1]

\* C1: an integer test value is classified 0 iff it is 0, 1 iff it is 1, and
\* 2 for every other integer, negative ones included.
C1_Classification ==
    \A i \in 1..Len(forms) :
        args[i][1].t = "int" =>
            /\ forms[i] = PyInt(0) <=> args[i][1].v = 0
            /\ forms[i] = PyInt(1) <=> args[i][1].v = 1
            /\ forms[i] = PyInt(2) <=> args[i][1].v \notin {0, 1}

C1_Witness ==
    /\ pc = "done"
    /\ \E i \in 1..Len(forms) :
        /\ args[i][1].t = "int"
        /\ args[i][1].v < 0
        /\ forms[i] = PyInt(2)

\* C2 as stated: whatever the separator and the candidate strings, the
\* returned dictionary holds, for every tuple i and every catalog entry, the
\* entry's form of the tuple's category under 'P' + i + name and its upper
\* case under 'P' + i + upper(name).
C2_ShortcutsAlways ==
    (pc = "done" /\ err = "none") =>
        \A i \in 1..Len(args), k \in 1..Len(regpl) :
            /\ KeyText(i - 1, regpl[k][1]) \in DOMAIN result
            /\ result[KeyText(i - 1, regpl[k][1])]
                 = regpl[k][2][Category(args[i][1]) + 1]
            /\ KeyText(i - 1, upper(regpl[k][1])) \in DOMAIN result
            /\ result[KeyText(i - 1, upper(regpl[k][1]))]
                 = upper(regpl[k][2][Category(args[i][1]) + 1])

\* Whether a candidate string of tuple i has the key 'P' + i + name.
Shadowed(i, name) ==
    \E k \in 2..Len(args[i]) : sep \o args[i][k] = name

\* C2 amended: both keys are always in the returned dictionary, and each has
\* the catalog's value unless a candidate string of the same tuple has that
\* very key (separator + string = shortcut name).
C2_ShortcutsUnlessShadowed ==
    (pc = "done" /\ err = "none") =>
        \A i \in 1..Len(args), k \in 1..Len(regpl) :
            /\ KeyText(i - 1, regpl[k][1]) \in DOMAIN result
            /\ ~Shadowed(i, regpl[k][1]) =>
                 result[KeyText(i - 1, regpl[k][1])]
                   = regpl[k][2][Category(args[i][1]) + 1]
            /\ KeyText(i - 1, upper(regpl[k][1])) \in DOMAIN result
            /\ ~Shadowed(i, upper(regpl[k][1])) =>
                 result[KeyText(i - 1, upper(regpl[k][1]))]
                   = upper(regpl[k][2][Category(args[i][1]) + 1])

C2_Witness ==
    /\ pc = "done"
    /\ err = "none"
    /\ Len(args) = 2
    /\ args[1] = <<PyInt(2)>>
    /\ Len(args[2]) = 2
    /\ args[2][1] = PyInt(1)
    /\ result[<<"P", "0", "s">>] = <<"s">>
    /\ result[<<"P", "0", "S">>] = <<"S">>
    /\ result[<<"P", "1", "s">>] = <<>>
    /\ result[<<"P", "1", "y">>] = <<"y">>

\* C3: the value stored for a candidate string with exactly one occurrence
\* of the separator is the text before it when the test value equals 1 and
\* the text after it for every other test value, 0 included.
C3_TwoFields ==
    \A k \in CustomWrites :
        Cardinality(Occ(writes[k].name, sep)) = 1 =>
            writes[k].val =
                IF PyEq(TestOf(writes[k]), 1)
                THEN SubSeq(writes[k].name, 1, Find(writes[k].name, sep) - 1)
                ELSE After(writes[k].name, sep)

C3_Witness ==
    /\ pc = "done"
    /\ \E k \in CustomWrites :
        /\ Cardinality(Occ(writes[k].name, sep)) = 1
        /\ TestOf(writes[k]) = PyInt(0)
        /\ writes[k].name = <<"a">> \o sep \o <<"s">>
        /\ writes[k].val = <<"s">>

\* The ways of reading s as z + separator + x + separator + p with no
\* separator in z, x or p: the positions <<a, b>> of the two separators.
ThreeFieldCuts(s, separator) ==
    {c \in Occ(s, separator) \X Occ(s, separator) :
        /\ c[1] + Len(separator) <= c[2]
        /\ Occ(SubSeq(s, 1, c[1] - 1), separator) = {}
        /\ Occ(SubSeq(s, c[1] + Len(separator), c[2] - 1), separator) = {}
        /\ Occ(SubSeq(s, c[2] + Len(separator), Len(s)), separator) = {}}

\* The field of the cut c that the category cat selects.
CutField(s, separator, c, cat) ==
    CASE cat = 0 -> SubSeq(s, 1, c[1] - 1)
      [] cat = 1 -> SubSeq(s, c[1] + Len(separator), c[2] - 1)
      [] OTHER -> SubSeq(s, c[2] + Len(separator), Len(s))

\* C4 as stated: for any non-empty separator, the value stored for
\* z + sep + x + sep + p (no separator in z, x, p) is z for test value 0, x
\* for 1 and p otherwise.
C4_RoundTripAnySep ==
    \A k \in CustomWrites :
        \A c \in ThreeFieldCuts(writes[k].name, sep) :
            writes[k].val = CutField(writes[k].name, sep, c,
                                     Category(TestOf(writes[k])))

\* C4 amended: the same, for a separator that cannot overlap itself (no
\* proper prefix of it is also its suffix; every one-character separator).
C4_RoundTripUnbordered ==
    \A k \in CustomWrites :
        Unbordered(sep) =>
            \A c \in ThreeFieldCuts(writes[k].name, sep) :
                writes[k].val = CutField(writes[k].name, sep, c,
                                         Category(TestOf(writes[k])))

C4_Witness ==
    /\ pc = "done"
    /\ sep = <<"<", "x", ">">>
    /\ \E k \in CustomWrites :
        /\ TestOf(writes[k]) = PyInt(0)
        /\ writes[k].name = <<"a">> \o sep \o <<"s">> \o sep
        /\ ThreeFieldCuts(writes[k].name, sep) # {}
        /\ writes[k].val = <<"a">>

\* C5: for a candidate string with three or more occurrences of the
\* separator (counted from the left without overlap) and a plural test
\* value, the value stored is everything after the second occurrence,
\* further separators included; and such a string makes no call fail: with a
\* non-empty separator a call fails only on a tuple without test value or on
\* a float test value equal to 0 or 1.
C5_CappedSplit ==
    /\ \A k \in CustomWrites :
          (Count(writes[k].name, sep) >= 3
              /\ Category(TestOf(writes[k])) = 2) =>
            /\ writes[k].val = After(After(writes[k].name, sep), sep)
            /\ Occ(writes[k].val, sep) # {}
    /\ (pc = "done" /\ sep # <<>> /\ err # "none") =>
          \E i \in 1..Len(args) :
              \/ Len(args[i]) = 0
              \/ (args[i][1].t = "float" /\ Category(args[i][1]) # 2)

C5_Witness ==
    /\ pc = "done"
    /\ err = "none"
    /\ sep = <<"<", "x", ">">>
    /\ \E k \in CustomWrites :
        /\ TestOf(writes[k]) = PyInt(2)
        /\ writes[k].name = <<"a">> \o sep \o <<"a">> \o sep \o <<"s">>
                              \o sep \o <<"a">>
        /\ writes[k].val = <<"s">> \o sep \o <<"a">>
        /\ result[KeyText(0, sep \o writes[k].name)] = writes[k].val

\* The field of p a category selects: p split at its first two separators,
\* one field serving every category, two fields read as singular and plural.
Selected(p, separator, cat) ==
    Normalize(split(p, separator, MaxSplit))[cat + 1]

DigitFirst(s) == Len(s) > 0 /\ \E d \in 1..Len(Digits) : s[1] = Digits[d]

\* The extent of C6's failure: C6 holds of every call of at most ten tuples
\* and of every call whose separator does not begin with a decimal digit.
C6_CustomKeysUnlessDigits ==
    (pc = "done" /\ err = "none" /\ (Len(args) <= 10 \/ ~DigitFirst(sep))) =>
        \A i \in 1..Len(args) : \A k \in 2..Len(args[i]) :
            /\ KeyText(i - 1, sep \o args[i][k]) \in DOMAIN result
            /\ result[KeyText(i - 1, sep \o args[i][k])]
                 = Selected(args[i][k], sep, Category(args[i][1]))

\* A call with a custom separator where the case of C6 happens.
C6_Witness ==
    /\ pc = "done"
    /\ err = "none"
    /\ kwargs = [k \in {"sep"} |-> <<"<", "x", ">">>]
    /\ args = << <<PyInt(1), <<"a", "<", "x", ">", "s">> >> >>
    /\ result[<<"P", "0", "<", "x", ">", "a", "<", "x", ">", "s">>] = <<"a">>

\* C7: a call with a zero-length separator always ends in an error.
C7_EmptySepRejected ==
    (pc = "done" /\ "sep" \in DOMAIN kwargs /\ kwargs["sep"] = <<>>) =>
        err # "none"

\* C8: with a non-empty separator and a test value in every tuple the call
\* raises no error, whatever the type of the test values, and every form
\* derived is an index 0, 1 or 2.
C8_AnyTestValue ==
    (pc = "done" /\ sep # <<>> /\ \A i \in 1..Len(args) : Len(args[i]) > 0) =>
        /\ err = "none"
        /\ \A i \in 1..Len(forms) : IsIndex(forms[i]) /\ forms[i].v \in 0..2

\* The pairs <<index, key>> and the keys of the stores of the call.
IndexedKeys == {<<writes[k].n, writes[k].key>> : k \in 1..Len(writes)}

StoredKeys == {writes[k].key : k \in 1..Len(writes)}

C9_NoCollisionUnlessDigits ==
    (pc = "done" /\ sep # <<>> /\ (Len(args) <= 10 \/ ~DigitFirst(sep))) =>
        Cardinality(IndexedKeys) = Cardinality(StoredKeys)

\* A call of more than ten tuples where no two tuples share a key.
C9_Witness ==
    /\ pc = "done"
    /\ err = "none"
    /\ Len(args) > 10
    /\ sep = DefaultSep
    /\ Len(args[2]) = 2
    /\ Len(args[11]) = 2
    /\ <<"P", "1", "s">> \in DOMAIN result
    /\ <<"P", "1", "0", "s">> \in DOMAIN result
    /\ <<"P", "1", "0", "|", "s">> \in DOMAIN result
    /\ <<"P", "1", "|", "s">> \in DOMAIN result

PluralQuantities == {q \in Quantities : Category(q) = 2}

\* The test values that equal 0 and index a tuple.
ZeroQuantities == {PyInt(0), PyBool(0)}

\* The call with the test value of tuple i replaced by q.
WithTest(a, i, q) == [a EXCEPT ![i] = [@ EXCEPT ![1] = q]]

\* C10: replacing a test value 0 (or False) by a plural test value (and so a plural one
\* by 0: the two calls are the same pair) changes neither the dictionary
\* returned nor the error raised, when no candidate string of that tuple has
\* two or more occurrences of the separator.
C10_ZeroAsPlural ==
    pc = "done" =>
        \A i \in 1..Len(args) :
            (/\ Len(args[i]) > 0
             /\ args[i][1] \in ZeroQuantities
             /\ \A k \in 2..Len(args[i]) :
                    sep = <<>> \/ Count(args[i][k], sep) < 2) =>
                \A q \in PluralQuantities :
                    \E st \in {set(WithTest(args, i, q), sep)} :
                        st.result = result /\ st.err = err

C10_Witness ==
    /\ pc = "done"
    /\ err = "none"
    /\ Len(args) = 1
    /\ args[1] = <<PyInt(0), <<"a", "|", "s">> >>
    /\ sep = DefaultSep
    /\ result = set(<< <<PyInt(-1), <<"a", "|", "s">> >> >>, sep).result
    /\ result[<<"P", "0", "|", "a", "|", "s">>] = <<"s">>

====
